---- MODULE Spec2Model ----
(***************************************************************************)
(* Cart / Load lifecycle of the cold-room application (core/models.py,     *)
(* core/views.py, core/forms.py).  The database is the shared state; every *)
(* web request is a process that issues its ORM statements one at a time   *)
(* (the project does not set ATOMIC_REQUESTS, so each statement commits on *)
(* its own, except inside Load.mark_taken, which is @transaction.atomic).  *)
(* Weights are integers in hundredths of a kilogram (12.5 kg = 1250).      *)
(***************************************************************************)
EXTENDS Integers, Sequences, FiniteSets, TLC

\* ------------------------------------------------------------------ bounds
\* Number of requests the workers start in one behaviour.
MaxOps == 3
\* Largest number of times one caller invokes mark_taken on its instance.
MaxCalls == 2

\* Web workers serving requests concurrently; the name doubles as the
\* edited_by text the worker's user submits.
Procs == {"p1", "p2"}
\* Numbers of rows in a submitted batch formset.
RowCounts == {1, 2}
\* Cart numbers users type; "999" is the seeded cart, "7" does not exist yet.
CartNumbers == {"999", "7"}
\* Product kinds chosen in the common part of a batch form.
BatchKinds == {"Naturalny"}
\* Product codes typed in the common part of a batch form (1..365).
BatchCodes == {12}
\* Weights typed into a batch row (12.3 kg).
BatchWeights == {1230}
\* Weight of the load an earlier batch may have left behind (600.0 kg).
EarlierWeight == {60000}
\* Decimals handed to round_to_half_kg, in hundredths: everything from 0.00
\* to 2.00, and the values of its docstring.
RoundInputs == (0..200) \cup {1224, 1226, 1274, 1276, 43000}
\* Weights typed into the edit form: negative, not a half, two decimals,
\* valid, valid, above the limit.
EditWeights == {-50, 1030, 1225, 1250, 2000, 50050}
\* Return locations a caller of take_to_production sends along (the "next"
\* parameter): a path of the application, a page of another host.
ReturnLocations == {"/tunel/", "https://evil.example/"}

\* ------------------------------------------------------- program constants
\* KINDS of plan_produkcji.py, the values of Load.Kind (the second one is
\* written without its diacritic).
KINDS == {"Naturalny", "Ziolowy", "Pomidorowy"}
IN_COLD_ROOM == "IN_COLD_ROOM"
TAKEN_TO_PRODUCTION == "TAKEN_TO_PRODUCTION"
\* plan_produkcji.py: the longest plan, the weight of one piece (0.15 kg)
\* and the slug of the one global plan.
MAX_DAYS == 7
SER_KG == 15
PLAN_SLUG == "default"
\* timezone.localdate(), as a day number.
today == 100
\* MaxValueValidator(Decimal("500.0")) on Load.total_weight_kg
MaxLoadWeight == 50000
\* max_value=Decimal("800.0") on BatchRowForm.total_weight_kg
MaxBatchWeight == 80000

None == << >>
Some(v) == << v >>

NoLoad == [id |-> 0]
NoCart == [id |-> 0]

\* ------------------------------------------------------------------- state
VARIABLES
    carts,       \* table core_cart: set of rows [id, number]
    loads,       \* table core_load: function pk -> row
    nextCartId,  \* auto-increment of core_cart
    nextLoadId,  \* auto-increment of core_load
    clock,       \* timezone.now(): one tick per write that stamps a row
    ops,         \* requests started so far
    pc,          \* where each request is
    inst,        \* the Load instance a request holds in memory
    seen,        \* the Load instance as first read by the request
    cartObj,     \* the Cart instance a request holds in memory
    req,         \* the request's inputs
    out,         \* the request's results and messages
    writers,     \* who wrote the held load while mark_taken was running
    plans,       \* table production_plan: set of rows [slug, days_count, dates, pcs]
    tunnelDays,  \* table core_tunnelday: the dates that have a row
    tunnelRows,  \* table core_tunnelrow: set of rows [id, day, order_no, data]
    nextRowId,   \* auto-increment of core_tunnelrow
    tx,          \* the uncommitted writes of a request's transaction.atomic()
    val,         \* the Decimal handed to round_to_half_kg
    rounded      \* what round_to_half_kg returned for it

vars == << carts, loads, nextCartId, nextLoadId, clock, ops,
           pc, inst, seen, cartObj, req, out, writers,
           plans, tunnelDays, tunnelRows, nextRowId, tx, val, rounded >>

\* The plan and tunnel tables, the open transactions and the rounding call:
\* what the cart / load requests never touch.
side == << plans, tunnelDays, tunnelRows, nextRowId, tx, val, rounded >>

db == << carts, loads, nextCartId, nextLoadId >>

\* Everything of the database and the clock.
store == << carts, loads, nextCartId, nextLoadId, clock >>

NoReq == [create_if_missing |-> FALSE, rows |-> 0, row_no |-> 0,
          cart_number |-> "", weight |-> 0, product_kind |-> "",
          product_code |-> 0, next |-> ""]
\* A request outside transaction.atomic(): nothing written, nothing locked.
NoTx == [created_day |-> FALSE, snapshot |-> {}, deleted |-> {},
         inserted |-> {}]
NoOut == [created_count |-> 0, skipped_occupied |-> << >>,
          skipped_missing |-> << >>, affected |-> 0, calls |-> 0,
          msg |-> "", error |-> "", location |-> "", deleted |-> 0]

\* ------------------------------------------------------------ pure helpers
\* Mutant: ROUND_HALF_EVEN, the default rounding of the decimal module.
RoundHalfEven(n) ==
    LET q == n \div 100
        r == n % 100
    IN  IF r < 50 THEN q
        ELSE IF r > 50 THEN q + 1
        ELSE IF q % 2 = 0 THEN q ELSE q + 1

\* Decimal.to_integral_value(rounding=ROUND_HALF_UP) of n/100: ties go away
\* from zero.
RoundHalfUp(n) ==
    IF n >= 0 THEN (n + 50) \div 100 ELSE -((-n + 50) \div 100)

\* Mutant: the weight is passed on as typed.
round_to_half_kg_as_typed(value) == value

\* round_to_half_kg: double, round half up, halve, one decimal digit.
round_to_half_kg(value) ==
    LET half_steps == RoundHalfUp(value * 2)
    IN  half_steps * 50

\* validate_half_kg: (d * 2) % 1 != 0 raises.
validate_half_kg(value) == (value * 2) % 100 = 0

\* DecimalField(max_digits=4, decimal_places=1): at most one decimal digit
\* and at most three digits before the point.
DecimalOneDigit(value) ==
    /\ value % 10 = 0
    /\ value < 100000
    /\ value > -100000

\* BatchRowForm.total_weight_kg with clean_total_weight_kg: the cleaned
\* weight of a valid row.
BatchRowValid(w) ==
    /\ DecimalOneDigit(w)
    /\ w >= 0
    /\ w <= MaxBatchWeight
    /\ round_to_half_kg(w) <= MaxBatchWeight

\* Mutant: the fallback of _available_q, attached to a cart and nothing
\* else.
_available_q_base(row) == TRUE

\* _available_q: attached to a cart and taken_at IS NULL.
_available_q(row) == row.taken_at = None

\* What the processes of a mark_taken call cover.
MtWindow == {"mt_entry", "mt_update", "mt_refresh"}

\* Book-keeping of a committed write by w to the loads ids: every other
\* request that is inside mark_taken on one of them records the writer.
NoteWrite(w, ids) ==
    [q \in Procs |->
        IF q # w /\ pc[q] \in MtWindow /\ inst[q].id \in ids
        THEN writers[q] \cup {w}
        ELSE writers[q]]

LoadIds == DOMAIN loads

\* timezone.now()
Now == clock

\* Cart.active_load: the cart's load with status IN_COLD_ROOM, the newest
\* first; None (NoLoad) without one.
active_load(cart) ==
    LET found == {i \in LoadIds : /\ loads[i].cart_id = cart.id
                                  /\ loads[i].status = IN_COLD_ROOM}
    IN  IF found = {} THEN NoLoad
        ELSE loads[CHOOSE i \in found : \A j \in found : j <= i]

\* Cart.is_free
is_free(cart) == active_load(cart) = NoLoad

\* api_cart_check: whether the cart exists and whether a load on it
\* satisfies _available_q().
api_cart_check(number) ==
    LET found == {c \in carts : c.number = number}
    IN  IF found = {} THEN [exists |-> FALSE, occupied |-> FALSE]
        ELSE LET cart == CHOOSE c \in found : TRUE
             IN  [exists |-> TRUE,
                  occupied |-> \E i \in LoadIds :
                                  /\ loads[i].cart_id = cart.id
                                  /\ _available_q(loads[i])]

\* ---------------------------------------------------------------- requests
\* A worker picks up a request.
Start(p) ==
    /\ pc[p] = "idle"
    /\ ops < MaxOps
    /\ ops' = ops + 1

\* The response leaves; the worker is free again.
Respond(p) ==
    /\ pc[p] \in {"nb_done", "ttp_done", "el_done", "el_invalid", "dc_done",
                  "pp_done", "pg_done", "tn_done", "tn_invalid", "pop_done",
                  "http404", "error500"}
    /\ pc' = [pc EXCEPT ![p] = "idle"]
    /\ inst' = [inst EXCEPT ![p] = NoLoad]
    /\ seen' = [seen EXCEPT ![p] = NoLoad]
    /\ cartObj' = [cartObj EXCEPT ![p] = NoCart]
    /\ req' = [req EXCEPT ![p] = NoReq]
    /\ out' = [out EXCEPT ![p] = NoOut]
    /\ writers' = [writers EXCEPT ![p] = {}]
    /\ UNCHANGED << side, store, ops >>

\* ------------------------------------------------------------- new_batch
\* Database constraints an INSERT into core_load must pass.
\* Mutant: the foreign key is not enforced on insert.
CartFkUnchecked(row) == TRUE

\* ForeignKey(Cart, on_delete=PROTECT): the cart row exists.
CartFkHolds(row) == \E c \in carts : c.id = row.cart_id

\* Mutant: the partial unique index is missing.
unique_active_load_per_cart_off(row) == TRUE

\* UniqueConstraint(fields=["cart"], condition=Q(status="IN_COLD_ROOM")).
unique_active_load_per_cart(row) ==
    row.status = IN_COLD_ROOM =>
        ~ \E i \in LoadIds : /\ loads[i].cart_id = row.cart_id
                              /\ loads[i].status = IN_COLD_ROOM

\* Mutant: save() without the initial-weight rule.
LoadSaveNoInitial(row) == row

\* Load.save on a new instance: initial_weight_kg is taken from
\* total_weight_kg when it is still empty.
LoadSave(row) ==
    IF row.initial_weight_kg = None
    THEN [row EXCEPT !.initial_weight_kg = Some(row.total_weight_kg)]
    ELSE row

\* Load.objects.create(cart=..., total_weight_kg=weight, ...): the field
\* defaults, then Load.save.
LoadCreate(id, cart, kind, code, weight) ==
    LoadSave([id |-> id, cart_id |-> cart.id, status |-> IN_COLD_ROOM,
              product_kind |-> kind, product_code |-> code,
              total_weight_kg |-> weight, initial_weight_kg |-> None,
              cart_weight_snapshot |-> None, taken_at |-> None,
              edited_by |-> "", edited_at |-> None, version |-> 0])

\* The `for row in formset` loop moves on: next row, or the messages and the
\* redirect once the rows are exhausted.
AfterRow(r) == IF r.row_no = r.rows THEN "nb_done" ELSE "nb_row"

\* POST of a valid formset (common.is_valid() and formset.is_valid()).
NewBatchPost(p) ==
    /\ Start(p)
    /\ pc' = [pc EXCEPT ![p] = "nb_row"]
    /\ \E flag \in BOOLEAN, n \in RowCounts, kind \in BatchKinds,
          code \in BatchCodes :
          req' = [req EXCEPT ![p] = [NoReq EXCEPT !.create_if_missing = flag,
                                                  !.rows = n,
                                                  !.product_kind = kind,
                                                  !.product_code = code]]
    /\ out' = [out EXCEPT ![p] = NoOut]
    /\ UNCHANGED << side, store, inst, seen, cartObj, writers >>

\* Mutant: a missing cart is created whatever the flag says.
ShouldCreateAlways(flag) == TRUE

\* Whether a missing cart is created: the create_cart_if_missing flag.
ShouldCreate(flag) == flag

\* One row starts: Cart.objects.filter(number=cart_number).first(), and the
\* branch for a cart that is missing.
NbRow(p) ==
    /\ pc[p] = "nb_row"
    /\ \E number \in CartNumbers :
        /\ LET r == [req[p] EXCEPT !.row_no = @ + 1, !.cart_number = number]
               found == {c \in carts : c.number = number}
           IN  IF found # {}
               THEN /\ cartObj' = [cartObj EXCEPT ![p] = CHOOSE c \in found : TRUE]
                    /\ req' = [req EXCEPT ![p] = r]
                    /\ pc' = [pc EXCEPT ![p] = "nb_check"]
                    /\ out' = out
               ELSE IF ShouldCreate(req[p].create_if_missing)
               THEN /\ cartObj' = [cartObj EXCEPT ![p] = NoCart]
                    /\ req' = [req EXCEPT ![p] = r]
                    /\ pc' = [pc EXCEPT ![p] = "nb_create_cart"]
                    /\ out' = out
               ELSE /\ cartObj' = [cartObj EXCEPT ![p] = NoCart]
                    /\ req' = [req EXCEPT ![p] = r]
                    /\ out' = [out EXCEPT ![p].skipped_missing = Append(@, number)]
                    /\ pc' = [pc EXCEPT ![p] = AfterRow(r)]
    /\ UNCHANGED << side, store, ops, inst, seen, writers >>

\* Cart.objects.create(number=cart_number); number is unique.
NbCreateCart(p) ==
    /\ pc[p] = "nb_create_cart"
    /\ IF \E c \in carts : c.number = req[p].cart_number
       THEN /\ pc' = [pc EXCEPT ![p] = "error500"]
            /\ out' = [out EXCEPT ![p].error = "IntegrityError cart.number"]
            /\ UNCHANGED << carts, nextCartId, cartObj >>
       ELSE LET c == [id |-> nextCartId, number |-> req[p].cart_number]
            IN  /\ carts' = carts \cup {c}
                /\ nextCartId' = nextCartId + 1
                /\ cartObj' = [cartObj EXCEPT ![p] = c]
                /\ pc' = [pc EXCEPT ![p] = "nb_check"]
                /\ out' = out
    /\ UNCHANGED << side, loads, nextLoadId, clock, ops, inst, seen, req, writers >>

\* has_active = Load.objects.filter(Q(cart=cart) & _available_q()).exists()
NbCheckActive(p) ==
    /\ pc[p] = "nb_check"
    /\ LET has_active == \E i \in LoadIds : /\ loads[i].cart_id = cartObj[p].id
                                            /\ _available_q(loads[i])
       IN  IF has_active
           THEN /\ out' = [out EXCEPT ![p].skipped_occupied =
                                        Append(@, req[p].cart_number)]
                /\ pc' = [pc EXCEPT ![p] = AfterRow(req[p])]
           ELSE /\ out' = out
                /\ pc' = [pc EXCEPT ![p] = "nb_insert"]
    /\ UNCHANGED << side, store, ops, inst, seen, cartObj, req, writers >>

\* Load.objects.create(...); created_count += 1.  A constraint the insert
\* breaks raises IntegrityError, which new_batch does not catch.
NbInsert(p) ==
    /\ pc[p] = "nb_insert"
    /\ \E w \in {x \in BatchWeights : BatchRowValid(x)} :
       LET row == LoadCreate(nextLoadId, cartObj[p], req[p].product_kind,
                             req[p].product_code,
                             round_to_half_kg(w))
       IN  IF ~ CartFkHolds(row)
           THEN /\ pc' = [pc EXCEPT ![p] = "error500"]
                /\ out' = [out EXCEPT ![p].error = "IntegrityError load.cart"]
                /\ UNCHANGED << loads, nextLoadId >>
           ELSE IF ~ unique_active_load_per_cart(row)
           THEN /\ pc' = [pc EXCEPT ![p] = "error500"]
                /\ out' = [out EXCEPT ![p].error =
                                        "IntegrityError unique_active_load_per_cart"]
                /\ UNCHANGED << loads, nextLoadId >>
           ELSE /\ loads' = [i \in LoadIds \cup {nextLoadId} |->
                                IF i = nextLoadId THEN row ELSE loads[i]]
                /\ nextLoadId' = nextLoadId + 1
                /\ out' = [out EXCEPT ![p].created_count = @ + 1]
                /\ pc' = [pc EXCEPT ![p] = AfterRow(req[p])]
    /\ UNCHANGED << side, carts, nextCartId, clock, ops, inst, seen, cartObj, req,
                    writers >>

\* ---------------------------------------------------- take_to_production
\* get_object_or_404(Model, pk=id) on core_load.
GetLoad(id) == IF id \in LoadIds THEN loads[id] ELSE NoLoad

\* reverse("home"): path("", home, name="home")
HomeUrl == "/"

\* redirect("home") at the end of take_to_production, whatever the request
\* carries.
TakeRedirect(request) == HomeUrl

\* take_to_production up to the call of load.mark_taken(): the read, and the
\* "already taken" branch of the view.
TakeToProduction(p) ==
    /\ Start(p)
    /\ \E nxt \in ReturnLocations :
          req' = [req EXCEPT ![p] = [NoReq EXCEPT !.next = nxt]]
    /\ \E id \in 1..(nextLoadId - 1) :
         LET load == GetLoad(id)
         IN  /\ inst' = [inst EXCEPT ![p] = load]
             /\ seen' = [seen EXCEPT ![p] = load]
             /\ IF load = NoLoad
                THEN /\ pc' = [pc EXCEPT ![p] = "http404"]
                     /\ out' = [out EXCEPT ![p] = NoOut]
                ELSE IF load.status = TAKEN_TO_PRODUCTION
                THEN /\ pc' = [pc EXCEPT ![p] = "ttp_done"]
                     /\ out' = [out EXCEPT ![p] =
                                  [NoOut EXCEPT !.msg = "info",
                                                !.location = TakeRedirect(req'[p])]]
                ELSE /\ pc' = [pc EXCEPT ![p] = "mt_entry"]
                     /\ out' = [out EXCEPT ![p] = [NoOut EXCEPT !.calls = 1]]
    /\ writers' = [writers EXCEPT ![p] = {}]
    /\ UNCHANGED << side, store, cartObj >>

\* Mutant: the early return of mark_taken is missing.
AlreadyTakenNever(self) == FALSE

\* mark_taken, first lines: an instance that is already taken returns self.
AlreadyTaken(self) == self.status = TAKEN_TO_PRODUCTION

MarkTakenEntry(p) ==
    /\ pc[p] = "mt_entry"
    /\ pc' = [pc EXCEPT ![p] = IF AlreadyTaken(inst[p]) THEN "mt_return"
                                                        ELSE "mt_update"]
    /\ UNCHANGED << side, store, ops, inst, seen, cartObj, req, out, writers >>

\* Mutant: the UPDATE is filtered by primary key only.
CasMatchesPkOnly(row, self) == row.id = self.id

\* Load.objects.filter(pk=self.pk, status=IN_COLD_ROOM, version=self.version)
CasMatches(row, self) ==
    /\ row.id = self.id
    /\ row.status = IN_COLD_ROOM
    /\ row.version = self.version

\* Mutant: the UPDATE sets the status and forgets taken_at.
MarkTakenWriteNoStamp(row, self, now) ==
    [row EXCEPT !.status = TAKEN_TO_PRODUCTION,
                !.cart_weight_snapshot = Some(row.total_weight_kg),
                !.version = row.version + 1]

\* Mutant: the snapshot is taken from the caller's instance, not from F().
MarkTakenWriteStale(row, self, now) ==
    [row EXCEPT !.status = TAKEN_TO_PRODUCTION,
                !.taken_at = Some(now),
                !.cart_weight_snapshot = Some(self.total_weight_kg),
                !.version = row.version + 1]

\* .update(status=..., taken_at=now, cart_weight_snapshot=F("total_weight_kg"),
\*         version=F("version") + 1, updated_at=now)
MarkTakenWrite(row, self, now) ==
    [row EXCEPT !.status = TAKEN_TO_PRODUCTION,
                !.taken_at = Some(now),
                !.cart_weight_snapshot = Some(row.total_weight_kg),
                !.version = row.version + 1]

\* The conditional UPDATE.  When it matches, the row stays locked until the
\* atomic block commits, so the refresh_from_db that follows reads the row
\* just written; when it matches nothing the refresh is a later read.
MarkTakenUpdate(p) ==
    /\ pc[p] = "mt_update"
    /\ LET id == inst[p].id
           hit == id \in LoadIds /\ CasMatches(loads[id], inst[p])
       IN  IF hit
           THEN LET row == MarkTakenWrite(loads[id], inst[p], Now)
                IN  /\ loads' = [loads EXCEPT ![id] = row]
                    /\ inst' = [inst EXCEPT ![p] = row]
                    /\ out' = [out EXCEPT ![p].affected = @ + 1]
                    /\ writers' = NoteWrite(p, {id})
                    /\ clock' = clock + 1
                    /\ pc' = [pc EXCEPT ![p] = "mt_return"]
           ELSE /\ pc' = [pc EXCEPT ![p] = "mt_refresh"]
                /\ UNCHANGED << loads, inst, out, writers, clock >>
    /\ UNCHANGED << side, carts, nextCartId, nextLoadId, ops, seen, cartObj, req >>

\* if affected != 1: self.refresh_from_db(); return self.  refresh_from_db
\* raises Load.DoesNotExist when the row is gone.
MarkTakenRefresh(p) ==
    /\ pc[p] = "mt_refresh"
    /\ IF inst[p].id \in LoadIds
       THEN /\ inst' = [inst EXCEPT ![p] = loads[inst[p].id]]
            /\ pc' = [pc EXCEPT ![p] = "mt_return"]
            /\ out' = out
       ELSE /\ inst' = inst
            /\ pc' = [pc EXCEPT ![p] = "error500"]
            /\ out' = [out EXCEPT ![p].error = "Load.DoesNotExist"]
    /\ UNCHANGED << side, store, ops, seen, cartObj, req, writers >>

\* A caller that holds the returned instance calls mark_taken on it again.
MarkTakenAgain(p) ==
    /\ pc[p] = "mt_return"
    /\ out[p].calls < MaxCalls
    /\ out' = [out EXCEPT ![p].calls = @ + 1]
    /\ pc' = [pc EXCEPT ![p] = "mt_entry"]
    /\ UNCHANGED << side, store, ops, inst, seen, cartObj, req, writers >>

\* Back in the view: messages.success(...) and the redirect.
TakeRespond(p) ==
    /\ pc[p] = "mt_return"
    /\ out' = [out EXCEPT ![p].msg = "success",
                          ![p].location = TakeRedirect(req[p])]
    /\ pc' = [pc EXCEPT ![p] = "ttp_done"]
    /\ UNCHANGED << side, store, ops, inst, seen, cartObj, req, writers >>

\* ------------------------------------------------------------- edit_load
\* Mutant: the 500 kg MaxValueValidator is missing.
EditValidNoMax(w) ==
    /\ w % 10 = 0
    /\ w < 100000
    /\ w >= 0
    /\ (w * 2) % 100 = 0

\* EditLoadForm.is_valid() for total_weight_kg: the form field built from
\* the model field (digits), then the model field's validators.
EditValid(w) ==
    /\ DecimalOneDigit(w)
    /\ w >= 0
    /\ w <= MaxLoadWeight
    /\ validate_half_kg(w)

\* load = get_object_or_404(Load, pk=pk)
EditLoadGet(p) ==
    /\ Start(p)
    /\ \E id \in 1..(nextLoadId - 1) :
         LET load == GetLoad(id)
         IN  /\ inst' = [inst EXCEPT ![p] = load]
             /\ pc' = [pc EXCEPT ![p] = IF load = NoLoad THEN "http404"
                                                         ELSE "el_form"]
    /\ out' = [out EXCEPT ![p] = NoOut]
    /\ writers' = [writers EXCEPT ![p] = {}]
    /\ UNCHANGED << side, store, seen, cartObj, req >>

\* Mutant: save() without update_fields writes every field of the instance
\* the request read.
EditLoadWriteAll(row, self, w, by, now) ==
    [self EXCEPT !.total_weight_kg = w,
                 !.edited_by = by,
                 !.edited_at = Some(now),
                 !.version = self.version + 1]

\* Mutant: the edit also rewrites initial_weight_kg.
EditLoadWriteInitial(row, self, w, by, now) ==
    [row EXCEPT !.total_weight_kg = w,
                !.initial_weight_kg = Some(w),
                !.edited_by = by,
                !.edited_at = Some(now),
                !.version = self.version + 1]

\* The assignments of edit_load on the instance and
\* load.save(update_fields=[total_weight_kg, edited_by, edited_at, version,
\* updated_at]): the row as the UPDATE leaves it.
EditLoadWrite(row, self, w, by, now) ==
    [row EXCEPT !.total_weight_kg = w,
                !.edited_by = by,
                !.edited_at = Some(now),
                !.version = self.version + 1]

\* The POST branch: validation, then the save.  save(update_fields=...)
\* raises DatabaseError when its UPDATE touches no row.
EditLoadPost(p) ==
    /\ pc[p] = "el_form"
    /\ \E w \in EditWeights :
        /\ req' = [req EXCEPT ![p].weight = w]
        /\ IF ~ EditValid(w)
           THEN /\ pc' = [pc EXCEPT ![p] = "el_invalid"]
                /\ UNCHANGED << loads, inst, out, writers, clock >>
           ELSE IF inst[p].id \notin LoadIds
           THEN /\ pc' = [pc EXCEPT ![p] = "error500"]
                /\ out' = [out EXCEPT ![p].error = "DatabaseError"]
                /\ clock' = clock + 1
                /\ UNCHANGED << loads, inst, writers >>
           ELSE LET id == inst[p].id
                    row == EditLoadWrite(loads[id], inst[p], w, p, Now)
                IN  /\ loads' = [loads EXCEPT ![id] = row]
                    /\ inst' = [inst EXCEPT ![p] =
                                  EditLoadWrite(inst[p], inst[p], w, p, Now)]
                    /\ writers' = NoteWrite(p, {id})
                    /\ out' = [out EXCEPT ![p].msg = "success"]
                    /\ clock' = clock + 1
                    /\ pc' = [pc EXCEPT ![p] = "el_done"]
    /\ UNCHANGED << side, carts, nextCartId, nextLoadId, ops, seen, cartObj >>

\* ----------------------------------------------------------- delete_cart
\* cart = get_object_or_404(Cart, pk=cart_id)
DeleteCartGet(p) ==
    /\ Start(p)
    /\ \E id \in 1..(nextCartId - 1) :
         LET found == {c \in carts : c.id = id}
         IN  IF found = {}
             THEN /\ pc' = [pc EXCEPT ![p] = "http404"]
                  /\ cartObj' = [cartObj EXCEPT ![p] = NoCart]
             ELSE /\ pc' = [pc EXCEPT ![p] = "dc_loads"]
                  /\ cartObj' = [cartObj EXCEPT ![p] = CHOOSE c \in found : TRUE]
    /\ out' = [out EXCEPT ![p] = NoOut]
    /\ UNCHANGED << side, store, inst, seen, req, writers >>

\* Mutant: the filter on the cart is missing.
LoadsOfCartAll(cart) == LoadIds

\* Load.objects.filter(cart=cart)
LoadsOfCart(cart) == {i \in LoadIds : loads[i].cart_id = cart.id}

\* Load.objects.filter(cart=cart).delete(), which commits on its own and
\* returns the number of rows it deleted.
DeleteCartLoads(p) ==
    /\ pc[p] = "dc_loads"
    /\ LET gone == LoadsOfCart(cartObj[p])
       IN  /\ loads' = [i \in LoadIds \ gone |-> loads[i]]
           /\ writers' = NoteWrite(p, gone)
           /\ out' = [out EXCEPT ![p].deleted = Cardinality(gone)]
    /\ pc' = [pc EXCEPT ![p] = "dc_cart"]
    /\ UNCHANGED << side, carts, nextCartId, nextLoadId, clock, ops, inst, seen,
                    cartObj, req >>

\* cart.delete(): on_delete=PROTECT refuses while a load references the cart.
DeleteCartCart(p) ==
    /\ pc[p] = "dc_cart"
    /\ IF \E i \in LoadIds : loads[i].cart_id = cartObj[p].id
       THEN /\ pc' = [pc EXCEPT ![p] = "error500"]
            /\ out' = [out EXCEPT ![p].error = "ProtectedError"]
            /\ carts' = carts
       ELSE /\ carts' = {c \in carts : c.id # cartObj[p].id}
            /\ out' = [out EXCEPT ![p].msg = "success"]
            /\ pc' = [pc EXCEPT ![p] = "dc_done"]
    /\ UNCHANGED << side, loads, nextCartId, nextLoadId, clock, ops, inst, seen,
                    cartObj, req, writers >>

\* No request is being served.
Idle ==
    /\ ops = 0
    /\ pc = [p \in Procs |-> "idle"]
    /\ inst = [p \in Procs |-> NoLoad]
    /\ seen = [p \in Procs |-> NoLoad]
    /\ cartObj = [p \in Procs |-> NoCart]
    /\ req = [p \in Procs |-> NoReq]
    /\ out = [p \in Procs |-> NoOut]
    /\ writers = [p \in Procs |-> {}]
    /\ tx = [p \in Procs |-> NoTx]

\* The seed migration creates cart 999.
Seeded ==
    /\ carts = {[id |-> 1, number |-> "999"]}
    /\ nextCartId = 2
    /\ clock = 1

\* Nothing saved on the plan and tunnel screens yet.
NoPlanNoTunnel ==
    /\ plans = {}
    /\ tunnelDays = {}
    /\ tunnelRows = {}
    /\ nextRowId = 1

\* round_to_half_kg is not being called.
NoRounding ==
    /\ val = 0
    /\ rounded = None

\* The database after the migrations, or as an earlier batch left it: one
\* load in the cold room on the seeded cart.  (new_batch accepts up to
\* 800 kg and Load.objects.create runs no validators, so such a load may
\* weigh more than the 500 kg of the model field.)
Init ==
    /\ Seeded
    /\ \/ /\ loads = << >>
          /\ nextLoadId = 1
       \/ /\ \E w \in {x \in EarlierWeight : BatchRowValid(x)},
                kind \in BatchKinds, code \in BatchCodes :
                loads = [i \in {1} |->
                           LoadCreate(1, [id |-> 1, number |-> "999"], kind, code,
                                      round_to_half_kg(w))]
          /\ nextLoadId = 2
    /\ Idle
    /\ NoPlanNoTunnel
    /\ NoRounding

Next ==
    \E p \in Procs :
        \/ NewBatchPost(p)
        \/ NbRow(p)
        \/ NbCreateCart(p)
        \/ NbCheckActive(p)
        \/ NbInsert(p)
        \/ TakeToProduction(p)
        \/ MarkTakenEntry(p)
        \/ MarkTakenUpdate(p)
        \/ MarkTakenRefresh(p)
        \/ MarkTakenAgain(p)
        \/ TakeRespond(p)
        \/ EditLoadGet(p)
        \/ EditLoadPost(p)
        \/ DeleteCartGet(p)
        \/ DeleteCartLoads(p)
        \/ DeleteCartCart(p)
        \/ Respond(p)

Spec == Init /\ [][Next]_vars

\* ------------------------------------------------------ round_to_half_kg
\* A call of round_to_half_kg(value) with a Decimal that is not None.
RoundToHalfKg ==
    /\ rounded = None
    /\ rounded' = Some(round_to_half_kg(val))
    /\ UNCHANGED << store, ops, pc, inst, seen, cartObj, req, out, writers,
                    plans, tunnelDays, tunnelRows, nextRowId, tx, val >>

InitRound ==
    /\ Seeded
    /\ loads = << >>
    /\ nextLoadId = 1
    /\ Idle
    /\ NoPlanNoTunnel
    /\ val \in RoundInputs
    /\ rounded = None

NextRound == RoundToHalfKg

SpecRound == InitRound /\ [][NextRound]_vars

\* --------------------------------------------------------- plan_produkcji
\* What the plan requests leave alone.
notPlan == << store, inst, seen, cartObj, writers,
              tunnelDays, tunnelRows, nextRowId, tx, val, rounded >>

\* Texts of a POST field: nothing, something that does not parse, the
\* decimal text of an integer, the ISO text of a date.
Blank == [t |-> "blank", n |-> 0]
Bad == [t |-> "bad", n |-> 0]
IntText(n) == [t |-> "int", n |-> n]
\* date.isoformat()
isoformat(d) == [t |-> "iso", n |-> d]

\* str(i) of a day index, the key of the JSON objects, and int(i_str).
StrKey(i) == << "1", "2", "3", "4", "5", "6", "7" >>[i]
IntKey(s) == CHOOSE i \in 1..MAX_DAYS : StrKey(i) = s

Min(a, b) == IF a <= b THEN a ELSE b
Max(a, b) == IF a >= b THEN a ELSE b

\* request.POST.get(name) of an indexed field: absent fields read as "".
PostGet(fields, i) == IF i \in DOMAIN fields THEN fields[i] ELSE Blank

\* max(1, min(int(request.POST.get("days", "1")), MAX_DAYS)); ValueError -> 1
DaysCount(raw) ==
    IF raw.t = "int" THEN Max(1, Min(raw.n, MAX_DAYS)) ELSE 1

\* _parse_date(s, fallback)
_parse_date(s, fallback) == IF s.t = "iso" THEN s.n ELSE fallback

\* Mutant: only a date before the previous one is moved.
ForceAfterEarlierOnly(d, prev) == IF d < prev THEN prev + 1 ELSE d

\* if day_labels and d <= day_labels[-1][1]: d = day_labels[-1][1] + 1 day
ForceAfter(d, prev) == IF d <= prev THEN prev + 1 ELSE d

\* The loop over i in range(1, days_count + 1) that builds day_labels, from
\* day i on; labels are the dates of the days before i.
RECURSIVE DayLabels(_, _, _, _)
DayLabels(post, days_count, i, labels) ==
    IF i > days_count THEN labels
    ELSE LET last == IF labels = << >> THEN today ELSE labels[Len(labels)]
             di == PostGet(post.date, i)
             d0 == IF di.t # "blank" THEN _parse_date(di, last + 1)
                   ELSE IF i > 1 THEN last + 1 ELSE today
             d == IF labels # << >> THEN ForceAfter(d0, labels[Len(labels)])
                  ELSE d0
         IN  DayLabels(post, days_count, i + 1, Append(labels, d))

\* pcs[i][k] = max(int(raw), 0); ValueError -> 0
ParsePcs(raw) == IF raw.t = "int" THEN Max(raw.n, 0) ELSE 0

\* The POST branch up to the call of _save_plan_to_db, and the JSON that
\* _save_plan_to_db builds: the row to store.
PlanDoc(post, who) ==
    LET days_count == DaysCount(post.days)
        day_labels == DayLabels(post, days_count, 1, << >>)
        keys == {StrKey(i) : i \in 1..days_count}
    IN  [slug |-> PLAN_SLUG,
         days_count |-> days_count,
         dates |-> [s \in keys |-> isoformat(day_labels[IntKey(s)])],
         pcs |-> [s \in keys |->
                    [k \in KINDS |->
                        ParsePcs(IF IntKey(s) \in DOMAIN post.pcs
                                 THEN post.pcs[IntKey(s)][k] ELSE Blank)]],
         updated_by |-> who]

\* Texts typed into a date field: nothing, not a date, today, the day
\* after tomorrow.
DateInputs == {Blank, Bad, isoformat(today), isoformat(today + 2)}
\* The piece counts typed into one day's row, per kind.
PcsRowA == [k \in KINDS |-> IF k = "Naturalny" THEN IntText(100)
                            ELSE IF k = "Ziolowy" THEN Bad ELSE IntText(-5)]
PcsRowB == [k \in KINDS |-> IF k = "Naturalny" THEN IntText(40)
                            ELSE IF k = "Ziolowy" THEN IntText(200) ELSE Blank]
PcsRowC == [k \in KINDS |-> IF k = "Pomidorowy" THEN IntText(60)
                            ELSE IntText(0)]
PcsRows == {PcsRowA, PcsRowB, PcsRowC}
\* The forms posted to the plan screen: one or two days with every
\* combination of date texts, and three days with every combination after
\* an empty first date; two days of differing rows; a days field that is
\* not a number, is 0, or is above MAX_DAYS.
PlanPosts ==
    {[days |-> IntText(Len(ds)), date |-> ds,
      pcs |-> << PcsRowA, PcsRowB, PcsRowA >>] :
        ds \in UNION {[1..n -> DateInputs] : n \in 1..2}
               \cup {<< Blank >> \o x : x \in [1..2 -> DateInputs]}}
    \cup {[days |-> IntText(2), date |-> << >>, pcs |-> << a, b >>] :
            a \in PcsRows, b \in PcsRows \ {PcsRowC}}
    \cup {[days |-> Bad, date |-> << isoformat(today + 2) >>,
           pcs |-> << PcsRowC, PcsRowA >>],
          [days |-> IntText(0), date |-> << Bad >>, pcs |-> << PcsRowB >>],
          [days |-> IntText(9), date |-> << Blank, isoformat(today) >>,
           pcs |-> << PcsRowC, PcsRowC, PcsRowA >>]}

\* Mutant: the slug is not unique.
PlanSlugUniqueOff(slug) == TRUE

\* slug = SlugField(unique=True): an INSERT with this slug is accepted.
PlanSlugUnique(slug) == ~ \E r \in plans : r.slug = slug

\* update_or_create: the row with the slug, locked and overwritten with the
\* defaults.
PlanUpdate(doc) == {r \in plans : r.slug # doc.slug} \cup {doc}

\* POST: the form is read and ProductionPlan.objects.update_or_create(
\* slug=PLAN_SLUG, defaults=...) looks the row up (select_for_update): a row
\* that exists is overwritten in the same transaction; otherwise the
\* create follows.
PlanPost(p) ==
    /\ Start(p)
    /\ \E post \in PlanPosts :
        LET doc == PlanDoc(post, p)
        IN  /\ req' = [req EXCEPT ![p] = [post |-> post, doc |-> doc]]
            /\ IF \E r \in plans : r.slug = PLAN_SLUG
               THEN /\ plans' = PlanUpdate(doc)
                    /\ pc' = [pc EXCEPT ![p] = "pp_done"]
               ELSE /\ plans' = plans
                    /\ pc' = [pc EXCEPT ![p] = "pp_create"]
    /\ out' = [out EXCEPT ![p] = NoOut]
    /\ UNCHANGED notPlan

\* update_or_create, no row found: the INSERT; when another request has
\* inserted the slug meanwhile the IntegrityError is caught, the row is read
\* again and overwritten.
PlanCreate(p) ==
    /\ pc[p] = "pp_create"
    /\ IF PlanSlugUnique(req[p].doc.slug)
       THEN plans' = plans \cup {req[p].doc}
       ELSE plans' = PlanUpdate(req[p].doc)
    /\ pc' = [pc EXCEPT ![p] = "pp_done"]
    /\ UNCHANGED << notPlan, ops, req, out >>

\* _available_q of plan_produkcji.py: Q(cart__isnull=False) &
\* Q(taken_at__isnull=True); Load.cart is not nullable.
_available_q_plan(row) == row.taken_at = None

\* Sum("total_weight_kg") over the loads ids.
RECURSIVE SumKg(_)
SumKg(ids) ==
    IF ids = {} THEN 0
    ELSE LET i == CHOOSE x \in ids : TRUE
         IN  loads[i].total_weight_kg + SumKg(ids \ {i})

\* Mutant: every load is counted, taken or not.
_available_kg_by_kind_all ==
    [k \in KINDS |-> SumKg({i \in LoadIds : loads[i].product_kind = k})]

\* _available_kg_by_kind: kilograms in the cold room, per kind of KINDS.
_available_kg_by_kind ==
    [k \in KINDS |->
        SumKg({i \in LoadIds : /\ _available_q_plan(loads[i])
                               /\ loads[i].product_kind = k})]

\* _load_plan_from_db: (days_count, dates, pcs) with integer keys; the
\* defaults when no plan is stored.
_load_plan_from_db ==
    IF ~ \E r \in plans : r.slug = PLAN_SLUG
    THEN [days_count |-> 1,
          dates |-> [i \in {1} |-> isoformat(today)],
          pcs |-> [i \in {1} |-> [k \in KINDS |-> 0]]]
    ELSE LET plan == CHOOSE r \in plans : r.slug = PLAN_SLUG
         IN  [days_count |-> plan.days_count,
              dates |-> [i \in {IntKey(x) : x \in DOMAIN plan.dates} |->
                            plan.dates[StrKey(i)]],
              pcs |-> [i \in {IntKey(x) : x \in DOMAIN plan.pcs} |->
                          plan.pcs[StrKey(i)]]]

\* sum(...) of a list
RECURSIVE SumSeq(_)
SumSeq(q) == IF q = << >> THEN 0 ELSE Head(q) + SumSeq(Tail(q))

\* The daily balance of one kind: for each day need, used, shortage, with
\* remaining reduced by what is used and the shortages accumulated; the
\* day's figure is the accumulated shortage.
RECURSIVE WalkDays(_, _, _, _)
WalkDays(demand, n, remaining, cumulative_missing) ==
    IF n > Len(demand) THEN << >>
    ELSE LET need == demand[n]
             used == Min(need, remaining)
             shortage == need - used
         IN  << cumulative_missing + shortage >>
             \o WalkDays(demand, n + 1, remaining - used,
                         cumulative_missing + shortage)

\* Mutant: remaining starts empty, the stock on hand is forgotten.
daily_missing_kg_no_stock(demand, available) == WalkDays(demand, 1, 0, 0)

\* daily_missing_kg of one kind: remaining starts at what is available.
daily_missing_kg(demand, available) == WalkDays(demand, 1, available, 0)

\* Mutant: the difference without the max(..., 0).
to_make_by_kind_unclamped(total_demand_kg, available) ==
    total_demand_kg - available

\* to_make_by_kind[k] = max(total_demand_kg[k] - available_by_kind[k], 0)
to_make_by_kind(total_demand_kg, available) ==
    Max(total_demand_kg - available, 0)

\* GET, first query: the stored plan.
PlanGet(p) ==
    /\ Start(p)
    /\ out' = [out EXCEPT ![p] = [plan |-> _load_plan_from_db]]
    /\ pc' = [pc EXCEPT ![p] = "pg_loads"]
    /\ UNCHANGED << notPlan, plans, req >>

\* GET, from the clipping of days_count on: the demand in kg, the query of
\* what is available, the to-make figures, the daily balance and the rows.
PlanContext(plan) ==
    LET days_count == Max(1, Min(plan.days_count, MAX_DAYS))
        found == SelectSeq([i \in 1..MAX_DAYS |-> i],
                           LAMBDA i : i \in DOMAIN plan.dates /\ i <= days_count)
        indices == IF found = << >> THEN << 1 >> ELSE found
        dates_db == IF found = << >> THEN [i \in {1} |-> isoformat(today)]
                    ELSE plan.dates
        pcs_db == IF found = << >> THEN [i \in {1} |-> [k \in KINDS |-> 0]]
                  ELSE plan.pcs
        demand_pcs == [n \in 1..Len(indices) |->
                         [k \in KINDS |->
                            IF indices[n] \in DOMAIN pcs_db
                            THEN pcs_db[indices[n]][k] ELSE 0]]
        demand_kg == [k \in KINDS |->
                        [n \in 1..Len(indices) |-> demand_pcs[n][k] * SER_KG]]
        total_demand_kg == [k \in KINDS |-> SumSeq(demand_kg[k])]
        available_by_kind == _available_kg_by_kind
        missing == [k \in KINDS |->
                      daily_missing_kg(demand_kg[k], available_by_kind[k])]
    IN  [plan |-> plan,
         rows |-> [n \in 1..Len(indices) |->
                     [idx |-> indices[n],
                      date |-> dates_db[indices[n]].n,
                      pcs |-> demand_pcs[n],
                      missing_kg |-> [k \in KINDS |-> missing[k][n]]]],
         sum_kind |-> total_demand_kg,
         available |-> available_by_kind,
         to_make |-> [k \in KINDS |->
                        to_make_by_kind(total_demand_kg[k],
                                        available_by_kind[k])]]

PlanGetCompute(p) ==
    /\ pc[p] = "pg_loads"
    /\ out' = [out EXCEPT ![p] = PlanContext(out[p].plan)]
    /\ pc' = [pc EXCEPT ![p] = "pg_done"]
    /\ UNCHANGED << notPlan, plans, ops, req >>

\* A load as a batch created it, and as mark_taken left it when taken.
StoredLoad(id, cart_id, kind, weight, taken) ==
    LET row == LoadCreate(id, [id |-> cart_id], kind, 12, weight)
    IN  IF taken THEN MarkTakenWrite(row, row, 1) ELSE row

\* Cold rooms the plan screen is opened on: empty; two kinds in the cold
\* room and a taken load; two loads of one kind on two carts; taken loads
\* only.
PlanInventories ==
    { << >>,
      << StoredLoad(1, 1, "Naturalny", 3000, TRUE),
         StoredLoad(2, 1, "Naturalny", 1250, FALSE),
         StoredLoad(3, 2, "Ziolowy", 2000, FALSE) >>,
      << StoredLoad(1, 1, "Naturalny", 1000, FALSE),
         StoredLoad(2, 2, "Naturalny", 650, FALSE) >>,
      << StoredLoad(1, 1, "Pomidorowy", 500, TRUE),
         StoredLoad(2, 2, "Ziolowy", 40000, TRUE) >> }

InitPlan ==
    /\ carts = {[id |-> 1, number |-> "999"], [id |-> 2, number |-> "7"]}
    /\ nextCartId = 3
    /\ loads \in PlanInventories
    /\ nextLoadId = Len(loads) + 1
    /\ clock = 2
    /\ Idle
    /\ NoPlanNoTunnel
    /\ NoRounding

NextPlan ==
    \E p \in Procs :
        \/ PlanPost(p)
        \/ PlanCreate(p)
        \/ PlanGet(p)
        \/ PlanGetCompute(p)
        \/ Respond(p)

SpecPlan == InitPlan /\ [][NextPlan]_vars

\* ------------------------------------------------------------- tunel_view
\* What the tunnel requests leave alone.
notTunnel == << store, inst, seen, cartObj, writers, plans, val, rounded >>

\* Rows typed on the tunnel screen: complete, without a kind (skipped), a
\* second complete one, and two whose code is not a number, without and
\* with carts.  taken_carts is the text as _split_carts_csv splits it; cart
\* "5" does not exist.
TunnelEntryA == [product_kind |-> "Naturalny", product_code |-> "12",
                 taken_carts |-> << "999", "7" >>]
TunnelEntryB == [product_kind |-> "", product_code |-> "12",
                 taken_carts |-> << "999" >>]
TunnelEntryC == [product_kind |-> "Ziolowy", product_code |-> "7",
                 taken_carts |-> << "7", "5" >>]
TunnelEntryX == [product_kind |-> "Naturalny", product_code |-> "x",
                 taken_carts |-> << >>]
TunnelEntryY == [product_kind |-> "Naturalny", product_code |-> "x",
                 taken_carts |-> << "999" >>]
\* The forms posted to the tunnel screen: a production date that is valid
\* or not, and the rows in the order they were typed.
TunnelPosts ==
    {[production_date |-> d, entries |-> e] :
        d \in {isoformat(today), isoformat(today + 1), Bad},
        e \in {<< >>, << TunnelEntryA >>, << TunnelEntryB, TunnelEntryC >>,
               << TunnelEntryC, TunnelEntryA >>, << TunnelEntryX >>,
               << TunnelEntryY >>}}

\* _to_int(v): int(str(v).strip()), None when that raises.
_to_int(v) ==
    IF v = "12" THEN Some(12) ELSE IF v = "7" THEN Some(7) ELSE None

\* _to_int(pcode) or pcode: the number when the text is one.  PositiveInteger
\* Field refuses anything else when the row is written.
CodeIsNumber(entry) == _to_int(entry.product_code) # None

\* Mutant: the live weight is summed also for a load that was taken.
_weight_with_snapshot_live(load) == Some(load.total_weight_kg)

\* _weight_with_snapshot(load) for a load that was found: the snapshot when
\* the load is taken and has one, total_weight_kg otherwise.
_weight_with_snapshot(load) ==
    IF load.status = TAKEN_TO_PRODUCTION /\ load.cart_weight_snapshot # None
    THEN load.cart_weight_snapshot
    ELSE Some(load.total_weight_kg)

\* Load.objects.filter(product_kind=kind, product_code=code_val,
\* cart__number=str(no)).order_by("-id").first(), then its weight; None
\* when there is no such load.
LastLoadWeight(kind, code_val, no) ==
    LET found == {i \in LoadIds :
                    /\ loads[i].product_kind = kind
                    /\ loads[i].product_code = code_val
                    /\ \E c \in carts : /\ c.id = loads[i].cart_id
                                        /\ c.number = no}
    IN  IF found = {} THEN None
        ELSE _weight_with_snapshot(
                 loads[CHOOSE i \in found : \A j \in found : j <= i])

\* The loop of _sum_weights_for over cart_nos[n..], total so far.
RECURSIVE SumWeightsLoop(_, _, _, _, _)
SumWeightsLoop(kind, code_val, cart_nos, n, total) ==
    IF n > Len(cart_nos) THEN total
    ELSE LET w == LastLoadWeight(kind, code_val, cart_nos[n])
         IN  SumWeightsLoop(kind, code_val, cart_nos, n + 1,
                            IF w # None THEN total + w[1] ELSE total)

\* _sum_weights_for(kind, code, cart_nos): 0.0 without carts; round(total, 1)
\* changes nothing, the weights being multiples of 0.5.
_sum_weights_for(kind, code, cart_nos) ==
    IF cart_nos = << >> THEN 0
    ELSE SumWeightsLoop(kind, _to_int(code)[1], cart_nos, 1, 0)

\* _sum_weights_for with carts and a code that is not a number: the filter
\* on product_code raises ValueError.
SumRaises(e) == e.taken_carts # << >> /\ _to_int(e.product_code) = None

\* _collect_rows_from_post: the rows that have a kind and a code, with the
\* sum of their carts as the loads are now, numbered by enumerate() in the
\* order they came.
_collect_rows_from_post(entries) ==
    LET kept == SelectSeq(entries, LAMBDA e : e.product_kind # ""
                                              /\ e.product_code # "")
    IN  [n \in 1..Len(kept) |->
            [order_no |-> n - 1,
             data |-> [product_kind |-> kept[n].product_kind,
                       product_code |-> kept[n].product_code,
                       taken_carts_csv |-> kept[n].taken_carts,
                       sum_taken_kg |->
                           _sum_weights_for(kept[n].product_kind,
                                            kept[n].product_code,
                                            kept[n].taken_carts)]]]

\* TunnelRow(day=day, **r)
TunnelRowOf(day, r, id) ==
    [id |-> id, day |-> day, order_no |-> r.order_no, data |-> r.data]

\* POST with one of the forms of posts: the date form, the rows, and the
\* two early redirects.
TunnelPostFrom(p, posts) ==
    /\ Start(p)
    /\ \E post \in posts :
        IF post.production_date.t # "iso"
        THEN /\ pc' = [pc EXCEPT ![p] = "tn_invalid"]
             /\ req' = [req EXCEPT ![p] = NoReq]
             /\ out' = [out EXCEPT ![p] = NoOut]
        ELSE IF \E n \in 1..Len(post.entries) :
                    /\ post.entries[n].product_kind # ""
                    /\ SumRaises(post.entries[n])
        THEN /\ pc' = [pc EXCEPT ![p] = "error500"]
             /\ req' = [req EXCEPT ![p] = NoReq]
             /\ out' = [out EXCEPT ![p] = [NoOut EXCEPT !.error = "ValueError"]]
        ELSE LET rows == _collect_rows_from_post(post.entries)
             IN  /\ out' = [out EXCEPT ![p] = NoOut]
                 /\ IF rows = << >>
                    THEN /\ pc' = [pc EXCEPT ![p] = "tn_invalid"]
                         /\ req' = [req EXCEPT ![p] = NoReq]
                    ELSE /\ pc' = [pc EXCEPT ![p] = "tn_day"]
                         /\ req' = [req EXCEPT ![p] =
                                      [date |-> post.production_date.n,
                                       rows |-> rows]]
    /\ UNCHANGED << notTunnel, tunnelDays, tunnelRows, nextRowId, tx >>

\* POST of any of the forms.
TunnelPost(p) == TunnelPostFrom(p, TunnelPosts)

\* Another open transaction has inserted the day and not committed yet.
DayInsertPending(p, date) ==
    \E q \in Procs \ {p} : tx[q].created_day /\ req[q].date = date

\* with transaction.atomic(): TunnelDay.objects.get_or_create(date=...),
\* the SELECT.
TunnelDayGet(p) ==
    /\ pc[p] = "tn_day"
    /\ pc' = [pc EXCEPT ![p] = IF req[p].date \in tunnelDays
                               THEN "tn_delete" ELSE "tn_day_create"]
    /\ UNCHANGED << notTunnel, tunnelDays, tunnelRows, nextRowId, tx, ops,
                    req, out >>

\* get_or_create, the INSERT: it waits for an open transaction that has
\* inserted the same date; when the date is there by then the
\* IntegrityError is caught and the day is read.
TunnelDayCreate(p) ==
    /\ pc[p] = "tn_day_create"
    /\ ~ DayInsertPending(p, req[p].date)
    /\ tx' = [tx EXCEPT ![p].created_day = req[p].date \notin tunnelDays]
    /\ pc' = [pc EXCEPT ![p] = "tn_delete"]
    /\ UNCHANGED << notTunnel, tunnelDays, tunnelRows, nextRowId, ops, req,
                    out >>

\* day.rows.all().delete() starts: the DELETE sees the rows committed at
\* this moment (READ COMMITTED takes the snapshot when the statement starts).
TunnelDeleteStart(p) ==
    /\ pc[p] = "tn_delete"
    /\ tx' = [tx EXCEPT ![p].snapshot =
                 {r.id : r \in {x \in tunnelRows : x.day = req[p].date}}]
    /\ pc' = [pc EXCEPT ![p] = "tn_delete_rows"]
    /\ UNCHANGED << notTunnel, tunnelDays, tunnelRows, nextRowId, ops, req,
                    out >>

\* Rows another open transaction has deleted are locked by it.
LockedByOthers(p) == UNION {tx[q].deleted : q \in Procs \ {p}}

\* The DELETE goes through: it waits for the rows of its snapshot that
\* another transaction holds, and deletes those that are still there.
TunnelDeleteRows(p) ==
    /\ pc[p] = "tn_delete_rows"
    /\ tx[p].snapshot \cap LockedByOthers(p) = {}
    /\ tx' = [tx EXCEPT ![p].deleted =
                 tx[p].snapshot \cap {r.id : r \in tunnelRows}]
    /\ pc' = [pc EXCEPT ![p] = "tn_insert"]
    /\ UNCHANGED << notTunnel, tunnelDays, tunnelRows, nextRowId, ops, req,
                    out >>

\* TunnelRow.objects.bulk_create([...]): the rows get their ids; a code that
\* is not a number raises, and the atomic block rolls back.
TunnelBulkCreate(p) ==
    /\ pc[p] = "tn_insert"
    /\ LET rows == req[p].rows
       IN  IF \E n \in 1..Len(rows) : ~ CodeIsNumber(rows[n].data)
           THEN /\ tx' = [tx EXCEPT ![p] = NoTx]
                /\ pc' = [pc EXCEPT ![p] = "error500"]
                /\ out' = [out EXCEPT ![p].error = "ValueError"]
                /\ nextRowId' = nextRowId
           ELSE /\ tx' = [tx EXCEPT ![p].inserted =
                            {TunnelRowOf(req[p].date, rows[n], nextRowId + n - 1) :
                                n \in 1..Len(rows)}]
                /\ nextRowId' = nextRowId + Len(rows)
                /\ pc' = [pc EXCEPT ![p] = "tn_commit"]
                /\ out' = out
    /\ UNCHANGED << notTunnel, tunnelDays, tunnelRows, ops, req >>

\* The atomic block ends: the transaction commits.
TunnelCommit(p) ==
    /\ pc[p] = "tn_commit"
    /\ tunnelDays' = IF tx[p].created_day THEN tunnelDays \cup {req[p].date}
                     ELSE tunnelDays
    /\ tunnelRows' = {r \in tunnelRows : r.id \notin tx[p].deleted}
                     \cup tx[p].inserted
    /\ tx' = [tx EXCEPT ![p] = NoTx]
    /\ out' = [out EXCEPT ![p].msg = "success"]
    /\ pc' = [pc EXCEPT ![p] = "tn_done"]
    /\ UNCHANGED << notTunnel, nextRowId, ops, req >>

InitTunnel ==
    /\ Seeded
    /\ loads = << >>
    /\ nextLoadId = 1
    /\ Idle
    /\ NoPlanNoTunnel
    /\ NoRounding

NextTunnel ==
    \E p \in Procs :
        \/ TunnelPost(p)
        \/ TunnelDayGet(p)
        \/ TunnelDayCreate(p)
        \/ TunnelDeleteStart(p)
        \/ TunnelDeleteRows(p)
        \/ TunnelBulkCreate(p)
        \/ TunnelCommit(p)
        \/ Respond(p)

SpecTunnel == InitTunnel /\ [][NextTunnel]_vars

\* Cold rooms the tunnel screen is saved on: a taken load with a newer one
\* on the same cart and a load of another kind and code; two loads of one
\* kind and code on two carts; a taken load and a load of another code.
TunnelInventories ==
    { << StoredLoad(1, 1, "Naturalny", 3000, TRUE),
         StoredLoad(2, 1, "Naturalny", 1250, FALSE),
         [StoredLoad(3, 2, "Ziolowy", 2000, FALSE) EXCEPT !.product_code = 7] >>,
      << StoredLoad(1, 1, "Naturalny", 1000, FALSE),
         StoredLoad(2, 2, "Naturalny", 650, FALSE) >>,
      << StoredLoad(1, 1, "Naturalny", 3000, TRUE),
         [StoredLoad(2, 2, "Naturalny", 500, FALSE) EXCEPT !.product_code = 7] >> }

\* The forms saved while loads are edited and taken: one date, rows with
\* carts.
TunnelSumPosts ==
    {[production_date |-> isoformat(today), entries |-> e] :
        e \in {<< TunnelEntryA >>, << TunnelEntryC, TunnelEntryA >>,
               << TunnelEntryY >>}}

TunnelSumPost(p) == TunnelPostFrom(p, TunnelSumPosts)

\* The tunnel screen in use while loads are edited and taken.
InitTunnelSum ==
    /\ carts = {[id |-> 1, number |-> "999"], [id |-> 2, number |-> "7"]}
    /\ nextCartId = 3
    /\ loads \in TunnelInventories
    /\ nextLoadId = Len(loads) + 1
    /\ clock = 2
    /\ Idle
    /\ NoPlanNoTunnel
    /\ NoRounding

NextTunnelSum ==
    \E p \in Procs :
        \/ TunnelSumPost(p)
        \/ TunnelDayGet(p)
        \/ TunnelDayCreate(p)
        \/ TunnelDeleteStart(p)
        \/ TunnelDeleteRows(p)
        \/ TunnelBulkCreate(p)
        \/ TunnelCommit(p)
        \/ TakeToProduction(p)
        \/ MarkTakenEntry(p)
        \/ MarkTakenUpdate(p)
        \/ MarkTakenRefresh(p)
        \/ TakeRespond(p)
        \/ EditLoadGet(p)
        \/ EditLoadPost(p)
        \/ Respond(p)

SpecTunnelSum == InitTunnelSum /\ [][NextTunnelSum]_vars

\* ------------------------------------------------------ services/storage
\* The names a queryset on Load can filter and update by: the fields of
\* the model (and pk, cart_id).
LoadFieldNames ==
    {"id", "pk", "packing_date", "production_shift", "product_kind",
     "product_code", "handled_by", "flavor", "tank", "cart", "cart_id",
     "pieces", "total_weight_kg", "initial_weight_kg", "cart_weight_snapshot",
     "produced_at", "status", "taken_at", "edited_by", "edited_at",
     "created_at", "updated_at", "version"}

\* The names pop_next_load_from_cart filters and updates by.
PopFieldNames ==
    {"cart_id", "is_in_storage", "created_at", "pk", "version",
     "date_removed", "updated_at"}

\* pop_next_load_from_cart(cart_id), @transaction.atomic: the candidate is
\* the oldest row of the cart with is_in_storage set that no other
\* transaction has locked (select_for_update(skip_locked=True)), and the
\* conditional UPDATE on its version follows under that lock.  Building
\* the queryset raises FieldError for a name that is not a field of Load.
PopNextLoadFromCart(p) ==
    /\ Start(p)
    /\ \E cart_id \in 1..nextCartId :
        /\ cartObj' = [cartObj EXCEPT ![p] = [id |-> cart_id]]
        /\ IF ~ (PopFieldNames \subseteq LoadFieldNames)
           THEN /\ pc' = [pc EXCEPT ![p] = "error500"]
                /\ out' = [out EXCEPT ![p] = [NoOut EXCEPT !.error = "FieldError"]]
                /\ UNCHANGED << loads, inst, clock >>
           ELSE LET found == {i \in LoadIds : /\ loads[i].cart_id = cart_id
                                              /\ loads[i].is_in_storage}
                IN  IF found = {}
                    THEN /\ pc' = [pc EXCEPT ![p] = "pop_done"]
                         /\ out' = [out EXCEPT ![p] = NoOut]
                         /\ UNCHANGED << loads, inst, clock >>
                    ELSE LET id == CHOOSE i \in found : \A j \in found : i <= j
                         IN  /\ loads' = [loads EXCEPT
                                            ![id].is_in_storage = FALSE,
                                            ![id].date_removed = Some(Now),
                                            ![id].version = @ + 1]
                             /\ inst' = [inst EXCEPT ![p] = loads[id]]
                             /\ clock' = clock + 1
                             /\ pc' = [pc EXCEPT ![p] = "pop_done"]
                             /\ out' = [out EXCEPT ![p] =
                                          [NoOut EXCEPT !.affected = 1]]
    /\ UNCHANGED << side, carts, nextCartId, nextLoadId, seen, req, writers >>

InitStorage ==
    /\ carts = {[id |-> 1, number |-> "999"], [id |-> 2, number |-> "7"]}
    /\ nextCartId = 3
    /\ loads \in PlanInventories
    /\ nextLoadId = Len(loads) + 1
    /\ clock = 2
    /\ Idle
    /\ NoPlanNoTunnel
    /\ NoRounding

NextStorage ==
    \E p \in Procs :
        \/ PopNextLoadFromCart(p)
        \/ Respond(p)

SpecStorage == InitStorage /\ [][NextStorage]_vars

\* ================================================================== claims
ActiveOn(c) == {i \in LoadIds : loads[i].cart_id = c /\ loads[i].status = IN_COLD_ROOM}

\* C1: in every reachable state, for every cart, at most one load that
\* references it has status IN_COLD_ROOM, whatever the interleaving of batch
\* creation, take-to-production, weight edits and cart deletion.
C1_AtMostOneActiveLoadPerCart ==
    \A i \in LoadIds : Cardinality(ActiveOn(loads[i].cart_id)) <= 1

\* A cart with a taken load and an active one, while a racing batch insert
\* on it was refused by the constraint.
C1_Witness ==
    \E p \in Procs, i, j \in LoadIds :
        /\ pc[p] = "error500"
        /\ out[p].error = "IntegrityError unique_active_load_per_cart"
        /\ loads[i].cart_id = cartObj[p].id
        /\ loads[j].cart_id = cartObj[p].id
        /\ loads[i].status = IN_COLD_ROOM
        /\ loads[j].status = TAKEN_TO_PRODUCTION

\* The first mark_taken call of a request has come back (or raised).
FirstCallOver(p) ==
    /\ pc[p] \in {"mt_return", "ttp_done", "error500"}
    /\ out[p].calls = 1

\* C2: two mark_taken calls that run concurrently on one load, both having
\* read it IN_COLD_ROOM at the same version while nobody else writes the
\* load: exactly one conditional update matches (one status change, version
\* up by exactly 1), and the other call returns the load already
\* TAKEN_TO_PRODUCTION.
C2_ExactlyOneConcurrentTakeWins ==
    \A p, q \in Procs :
        ( /\ p # q
          /\ FirstCallOver(p) /\ FirstCallOver(q)
          /\ seen[p].id = seen[q].id
          /\ seen[p].status = IN_COLD_ROOM /\ seen[q].status = IN_COLD_ROOM
          /\ seen[p].version = seen[q].version
          /\ writers[p] \subseteq {q} /\ writers[q] \subseteq {p} )
        => /\ out[p].affected + out[q].affected = 1
           /\ pc[p] # "error500"
           /\ inst[p].status = TAKEN_TO_PRODUCTION
           /\ inst[p].version = seen[p].version + 1

\* Both calls are over, one matched and one did not.
C2_Witness ==
    \E p, q \in Procs :
        /\ p # q
        /\ FirstCallOver(p) /\ FirstCallOver(q)
        /\ seen[p].id = seen[q].id
        /\ seen[p].version = seen[q].version
        /\ writers[p] \subseteq {q} /\ writers[q] \subseteq {p}
        /\ out[p].affected = 1 /\ out[q].affected = 0
        /\ inst[q].status = TAKEN_TO_PRODUCTION

\* C3: a mark_taken call made in sequence after the caller's own call moved
\* the load to TAKEN_TO_PRODUCTION returns without error and writes nothing:
\* status, taken_at, cart_weight_snapshot, total_weight_kg and version stay
\* as they are.
C3_SecondMarkTakenChangesNothing ==
    [][ \A p \in Procs :
          ( /\ pc[p] \in MtWindow
            /\ out[p].calls >= 2
            /\ out[p].affected = 1
            /\ pc'[p] # pc[p] )
          => /\ loads' = loads
             /\ pc'[p] \in MtWindow \cup {"mt_return"} ]_vars

\* The second call has returned after the first one matched.
C3_Witness ==
    \E p \in Procs :
        /\ pc[p] = "mt_return"
        /\ out[p].calls = 2
        /\ out[p].affected = 1
        /\ inst[p].status = TAKEN_TO_PRODUCTION

\* C4: a conditional update that matches writes, in one step, status =
\* TAKEN_TO_PRODUCTION, taken_at = now, cart_weight_snapshot = the
\* total_weight_kg stored at that moment and version = stored version + 1;
\* it matches only a stored row with the caller's id, status IN_COLD_ROOM
\* and the version the caller read.
C4_MatchedUpdateWritesStoredSnapshot ==
    [][ \A p \in Procs :
          ( /\ pc[p] = "mt_update"
            /\ out'[p].affected = out[p].affected + 1 )
          => LET id == inst[p].id
             IN  /\ id \in DOMAIN loads
                 /\ id \in DOMAIN loads'
                 /\ loads[id].status = IN_COLD_ROOM
                 /\ loads[id].version = inst[p].version
                 /\ loads'[id].status = TAKEN_TO_PRODUCTION
                 /\ loads'[id].taken_at = Some(Now)
                 /\ loads'[id].cart_weight_snapshot = Some(loads[id].total_weight_kg)
                 /\ loads'[id].version = loads[id].version + 1
                 /\ loads'[id].total_weight_kg = loads[id].total_weight_kg
                 /\ \A j \in DOMAIN loads' : j # id => loads'[j] = loads[j] ]_vars

\* A matched update whose snapshot differs from the weight the caller read.
C4_Witness ==
    \E p \in Procs :
        /\ pc[p] = "mt_return"
        /\ out[p].calls = 1
        /\ out[p].affected = 1
        /\ inst[p].cart_weight_snapshot # Some(seen[p].total_weight_kg)
        /\ inst[p].version = seen[p].version + 1

\* C5: a mark_taken whose conditional update matches no row writes nothing,
\* does not raise, does not run the update again and returns the record as
\* stored.
C5_ZeroRowUpdateReturnsStoredRecord ==
    [][ \A p \in Procs :
          /\ ( /\ pc[p] = "mt_update"
               /\ pc'[p] # pc[p]
               /\ out'[p].affected = out[p].affected )
             => /\ loads' = loads
                /\ pc'[p] = "mt_refresh"
          /\ ( /\ pc[p] = "mt_refresh"
               /\ pc'[p] # pc[p] )
             => /\ loads' = loads
                /\ pc'[p] = "mt_return"
                /\ inst[p].id \in LoadIds
                /\ inst'[p] = loads[inst[p].id] ]_vars

\* C6: initial_weight_kg is set at the first save to the weight the load is
\* created with and no later step (weight edit, take, anything else) changes
\* it.
C6_InitialWeightNeverChanges ==
    [][ \A i \in DOMAIN loads' :
          IF i \in DOMAIN loads
          THEN loads'[i].initial_weight_kg = loads[i].initial_weight_kg
          ELSE loads'[i].initial_weight_kg = Some(loads'[i].total_weight_kg) ]_vars

\* A load that was edited to another weight and then taken.
C6_Witness ==
    \E i \in LoadIds :
        /\ loads[i].status = TAKEN_TO_PRODUCTION
        /\ loads[i].edited_at # None
        /\ loads[i].initial_weight_kg # Some(loads[i].total_weight_kg)
        /\ loads[i].cart_weight_snapshot = Some(loads[i].total_weight_kg)

\* C7: every load a batch row creates starts IN_COLD_ROOM with taken_at and
\* cart_weight_snapshot unset, version 0 and initial_weight_kg equal to its
\* total_weight_kg.
C7_BatchLoadStartsFresh ==
    [][ \A i \in DOMAIN loads' \ DOMAIN loads :
          /\ loads'[i].status = IN_COLD_ROOM
          /\ loads'[i].taken_at = None
          /\ loads'[i].cart_weight_snapshot = None
          /\ loads'[i].version = 0
          /\ loads'[i].initial_weight_kg = Some(loads'[i].total_weight_kg)
          /\ \E p \in Procs : pc[p] = "nb_insert" /\ loads'[i].cart_id = cartObj[p].id
        ]_vars

\* A batch that created two loads has finished.
C7_Witness ==
    \E p \in Procs :
        /\ pc[p] = "nb_done"
        /\ out[p].created_count = 2
        /\ Cardinality(LoadIds) >= 2

\* C8: a batch row whose cart has an active load (older, from an earlier row
\* of the batch, or from a racing batch) creates no load, changes nothing,
\* is reported as skipped, and the batch goes on with its remaining rows.
C8_OccupiedRowIsSkipped ==
    [][ \A p \in Procs :
          ( /\ pc[p] \in {"nb_check", "nb_insert"}
            /\ pc'[p] # pc[p]
            /\ ActiveOn(cartObj[p].id) # {} )
          => /\ loads' = loads
             /\ out'[p].skipped_occupied =
                    Append(out[p].skipped_occupied, req[p].cart_number)
             /\ pc'[p] = AfterRow(req[p]) ]_vars

\* C9: a batch row that names a cart number that does not exist, submitted
\* without the create-if-missing flag, creates neither a cart nor a load, is
\* reported as skipped, and leaves everything else of the batch as it was,
\* so the other rows are processed as if the row were absent.
C9_MissingCartRowIsSkipped ==
    [][ \A p \in Procs :
          ( /\ pc[p] = "nb_row"
            /\ req'[p].row_no = req[p].row_no + 1
            /\ ~ req[p].create_if_missing
            /\ ~ \E c \in carts : c.number = req'[p].cart_number )
          => /\ carts' = carts
             /\ loads' = loads
             /\ out'[p] = [out[p] EXCEPT !.skipped_missing =
                                           Append(@, req'[p].cart_number)]
             /\ pc'[p] = AfterRow(req'[p]) ]_vars

\* A finished batch that skipped a missing cart and created a load.
C9_Witness ==
    \E p \in Procs :
        /\ pc[p] = "nb_done"
        /\ ~ req[p].create_if_missing
        /\ Len(out[p].skipped_missing) >= 1
        /\ out[p].created_count >= 1

\* C10: edit_load rejects a weight that is negative, above 500 kg or not a
\* multiple of 0.5 kg, and the rejection leaves the stored load unchanged.
C10_InvalidWeightRejected ==
    [][ \A p \in Procs :
          ( /\ pc[p] = "el_form"
            /\ pc'[p] # pc[p]
            /\ \/ req'[p].weight < 0
               \/ req'[p].weight > 50000
               \/ req'[p].weight % 50 # 0 )
          => /\ loads' = loads
             /\ pc'[p] = "el_invalid" ]_vars

\* A weight above 500 kg was rejected while the load is stored.
C10_Witness ==
    \E p \in Procs :
        /\ pc[p] = "el_invalid"
        /\ req[p].weight > 50000
        /\ inst[p].id \in LoadIds
        /\ loads[inst[p].id] = inst[p]

\* A weight in hundredths of a kilogram that is an exact multiple of 0.5 kg.
HalfKg(w) == w % 50 = 0

\* C11: in every reachable state every stored total_weight_kg,
\* initial_weight_kg and non-null cart_weight_snapshot is an exact multiple
\* of 0.5 kg, whatever batches, weight edits and takes have run.
C11_StoredWeightsAreHalfKg ==
    \A i \in LoadIds :
        /\ HalfKg(loads[i].total_weight_kg)
        /\ loads[i].initial_weight_kg # None =>
               HalfKg(loads[i].initial_weight_kg[1])
        /\ loads[i].cart_weight_snapshot # None =>
               HalfKg(loads[i].cart_weight_snapshot[1])

\* A load typed as 12.3 kg and stored as 12.5 kg, edited since and taken.
C11_Witness ==
    \E i \in LoadIds :
        /\ loads[i].initial_weight_kg = Some(round_to_half_kg(1230))
        /\ loads[i].initial_weight_kg # Some(1230)
        /\ loads[i].edited_at # None
        /\ loads[i].total_weight_kg # loads[i].initial_weight_kg[1]
        /\ loads[i].cart_weight_snapshot = Some(loads[i].total_weight_kg)

\* C12: for a non-negative decimal with at most two fractional digits
\* round_to_half_kg returns the multiple of 0.5 nearest to it, a value
\* exactly halfway (x.25, x.75) going to the higher multiple; 12.24 gives
\* 12.0, 12.26 gives 12.5, 12.74 gives 12.5, 12.76 gives 13.0, 0.25 gives
\* 0.5, and a multiple of 0.5 such as 430.0 comes back unchanged.
C12_RoundsToNearestHalfTiesUp ==
    rounded # None =>
        LET r == rounded[1]
        IN  /\ HalfKg(r)
            /\ r - val <= 25
            /\ val - r < 25
            /\ HalfKg(val) => r = val
            /\ val = 1224 => r = 1200
            /\ val = 1226 => r = 1250
            /\ val = 1274 => r = 1250
            /\ val = 1276 => r = 1300
            /\ val = 25 => r = 50
            /\ val = 43000 => r = 43000

\* 0.25 was rounded, to 0.5.
C12_Witness ==
    /\ val = 25
    /\ rounded = Some(50)

\* C13: once delete_cart(cart) has completed the cart is gone and no load
\* references it, whatever the statuses of its loads were; no step of
\* delete_cart changes another cart or a load of another cart.
C13_DeleteCartRemovesCartAndItsLoads ==
    [][ \A p \in Procs :
          /\ ( pc[p] = "dc_loads" /\ pc'[p] # pc[p] )
             => /\ carts' = carts
                /\ \A i \in LoadIds :
                      loads[i].cart_id # cartObj[p].id
                          => i \in DOMAIN loads' /\ loads'[i] = loads[i]
          /\ ( pc[p] = "dc_cart" /\ pc'[p] = "dc_done" )
             => /\ carts' = {c \in carts : c.id # cartObj[p].id}
                /\ loads' = loads
          /\ pc'[p] = "dc_done"
             => /\ ~ \E c \in carts' : c.id = cartObj'[p].id
                /\ ~ \E i \in DOMAIN loads' : loads'[i].cart_id = cartObj'[p].id
      ]_vars

\* Cart 999 and its load were deleted while another cart keeps its load.
C13_Witness ==
    \E p \in Procs :
        /\ pc[p] = "dc_done"
        /\ cartObj[p].number = "999"
        /\ nextLoadId - 1 > Cardinality(LoadIds)
        /\ \E i \in LoadIds : loads[i].cart_id # cartObj[p].id

\* C14: every load references an existing cart in every state a step
\* leads to; a cart disappears only in delete_cart's cart.delete(), and
\* only when no load references it any more, also when delete_cart
\* interleaves with a batch that creates a load on the same cart.
C14_EveryLoadHasItsCart ==
    [][ /\ \A i \in DOMAIN loads' :
              \E c \in carts' : c.id = loads'[i].cart_id
        /\ \A c \in carts \ carts' :
              /\ ~ \E i \in LoadIds : loads[i].cart_id = c.id
              /\ \E p \in Procs : pc[p] = "dc_cart" /\ cartObj[p].id = c.id
      ]_vars

\* delete_cart was refused by PROTECT: a batch put a load on the cart after
\* delete_cart had deleted the cart's loads.
C14_Witness ==
    \E p \in Procs :
        /\ pc[p] = "error500"
        /\ out[p].error = "ProtectedError"
        /\ \E c \in carts : c.id = cartObj[p].id
        /\ \E i \in LoadIds : loads[i].cart_id = cartObj[p].id

\* Planned demand of kind k in kg, summed over the days 1..n of a loaded
\* plan.
RECURSIVE CumDemandKg(_, _, _)
CumDemandKg(plan, k, n) ==
    IF n = 0 THEN 0
    ELSE plan.pcs[n][k] * SER_KG + CumDemandKg(plan, k, n - 1)

\* C15: on the plan screen, for every kind and every day of the horizon,
\* the day's missing figure is max(demand accumulated through that day -
\* kg on hand of that kind, 0), with demand = planned pieces x 0.15 kg;
\* 10 kg on hand with demands of 100 kg and 50 kg gives 90 and 140.
C15_MissingIsCumulativeShortfall ==
    \A p \in Procs :
        pc[p] = "pg_done" =>
           LET ctx == out[p]
           IN  /\ Len(ctx.rows) = ctx.plan.days_count
               /\ \A n \in 1..Len(ctx.rows), k \in KINDS :
                     /\ ctx.rows[n].idx = n
                     /\ ctx.rows[n].missing_kg[k] =
                           Max(CumDemandKg(ctx.plan, k, n) - ctx.available[k], 0)
               /\ daily_missing_kg(<< 10000, 5000 >>, 1000) = << 9000, 14000 >>

\* A kind whose stock covers part of the first day, the shortage growing on
\* the second.
C15_Witness ==
    \E p \in Procs, k \in KINDS :
        /\ pc[p] = "pg_done"
        /\ Len(out[p].rows) >= 2
        /\ out[p].available[k] > 0
        /\ out[p].rows[1].missing_kg[k] > 0
        /\ out[p].rows[1].missing_kg[k] < out[p].rows[1].pcs[k] * SER_KG
        /\ out[p].rows[2].missing_kg[k] > out[p].rows[1].missing_kg[k]

\* Kilograms of kind k whose load is still in the cold room.
InColdRoomKg(k) ==
    SumKg({i \in LoadIds : /\ loads[i].status = IN_COLD_ROOM
                           /\ loads[i].product_kind = k})

\* C16: for every kind the to-make figure is max(total planned demand of
\* the horizon - kg on hand, 0), on hand being the total_weight_kg of
\* exactly the loads of that kind still in the cold room.
C16_ToMakeIsDemandMinusOnHand ==
    [][ \A p \in Procs :
          ( pc[p] = "pg_loads" /\ pc'[p] = "pg_done" )
          => \A k \in KINDS :
                out'[p].to_make[k] =
                    Max(CumDemandKg(out[p].plan, k, out[p].plan.days_count)
                        - InColdRoomKg(k), 0) ]_vars

\* Something is left to make of a kind that has a load in the cold room and
\* a taken one.
C16_Witness ==
    \E p \in Procs, k \in KINDS :
        /\ pc[p] = "pg_done"
        /\ out[p].to_make[k] > 0
        /\ out[p].to_make[k] < out[p].sum_kind[k]
        /\ \E i, j \in LoadIds :
              /\ loads[i].product_kind = k /\ loads[i].status = IN_COLD_ROOM
              /\ loads[j].product_kind = k
              /\ loads[j].status = TAKEN_TO_PRODUCTION

\* The date a saved plan holds for day i.
PlanDate(doc, i) == doc.dates[StrKey(i)].n

\* C17: the dates of every saved plan are strictly increasing in the day
\* index: a date of day i (typed, defaulted or unparsable) that is not later
\* than the date of day i-1 is replaced by that date plus one day.
C17_PlanDatesStrictlyIncrease ==
    /\ \A doc \in plans : \A i \in 2..doc.days_count :
          PlanDate(doc, i) > PlanDate(doc, i - 1)
    /\ \A p \in Procs :
          pc[p] \in {"pp_create", "pp_done"} =>
             LET doc == req[p].doc
                 post == req[p].post
             IN  \A i \in 2..doc.days_count :
                    LET prev == PlanDate(doc, i - 1)
                        typed == PostGet(post.date, i)
                        wanted == IF typed.t = "iso" THEN typed.n ELSE prev + 1
                    IN  PlanDate(doc, i) =
                            IF wanted <= prev THEN prev + 1 ELSE wanted

\* A saved plan whose second date was typed and has been replaced.
C17_Witness ==
    \E p \in Procs :
        /\ pc[p] = "pp_done"
        /\ req[p].doc \in plans
        /\ req[p].doc.days_count >= 2
        /\ PostGet(req[p].post.date, 2).t = "iso"
        /\ PlanDate(req[p].doc, 2) # PostGet(req[p].post.date, 2).n

\* The keys "1".."n" of a plan of n days.
DayKeys(n) == {StrKey(i) : i \in 1..n}

\* C19: after any sequence of plan saves, concurrent ones included, exactly
\* one plan document with the fixed slug exists, and it holds the
\* days_count, dates and piece counts of the save committed last and
\* nothing of an earlier save: a save that commits leaves its own document
\* as the only one, the document changes at no other step, and its dates and
\* counts are keyed by exactly the days 1..days_count.
C19_OnePlanDocumentOfOneSave ==
    [][ /\ \A p \in Procs :
              ( pc[p] # "pp_done" /\ pc'[p] = "pp_done" )
              => plans' = {req'[p].doc}
        /\ plans' # plans
              => \E p \in Procs : pc[p] # "pp_done" /\ pc'[p] = "pp_done"
        /\ Cardinality({r \in plans' : r.slug = PLAN_SLUG}) <= 1
        /\ (\E p \in Procs : pc'[p] = "pp_done")
              => Cardinality({r \in plans' : r.slug = PLAN_SLUG}) = 1
        /\ \A r \in plans' :
              /\ DOMAIN r.dates = DayKeys(r.days_count)
              /\ DOMAIN r.pcs = DayKeys(r.days_count) ]_vars

\* Two saves have finished: the three-day plan of one gave way to the
\* one-day plan of the other.
C19_Witness ==
    \E p, q \in Procs :
        /\ p # q
        /\ pc[p] = "pp_done" /\ pc[q] = "pp_done"
        /\ req[p].doc.days_count = 3
        /\ req[q].doc.days_count = 1
        /\ plans = {req[q].doc}
        /\ ops = 2

\* The rows stored for a date, without their ids.
RowsOfDay(table, date) ==
    {[order_no |-> r.order_no, data |-> r.data] :
        r \in {x \in table : x.day = date}}

\* C18: when a tunnel save for date D completes, the rows stored for D are
\* exactly the rows of that submission, numbered 0..n-1 in the order
\* submitted, nothing of an earlier or of a concurrent save among them, and
\* the rows of other dates are untouched.
C18_TunnelSaveReplacesTheDay ==
    [][ \A p \in Procs :
          ( pc[p] = "tn_commit" /\ pc'[p] = "tn_done" )
          => LET D == req[p].date
                 stored == {x \in tunnelRows' : x.day = D}
             IN  /\ RowsOfDay(tunnelRows', D) =
                        {req[p].rows[n] : n \in 1..Len(req[p].rows)}
                 /\ Cardinality(stored) = Len(req[p].rows)
                 /\ \A n \in 1..Len(req[p].rows) :
                        req[p].rows[n].order_no = n - 1
                 /\ {x \in tunnelRows' : x.day # D}
                        = {x \in tunnelRows : x.day # D} ]_vars

\* C20: workers that call pop_next_load_from_cart concurrently on one cart
\* never get the same load and never wait for a row another worker holds:
\* each call claims an in-storage load of the cart that no other call has
\* claimed, or returns None.
C20_PopClaimsDistinctLoadOrNone ==
    [][ \A p \in Procs :
          ( pc[p] = "idle" /\ pc'[p] # "idle" )
          => /\ pc'[p] = "pop_done"
             /\ inst'[p] # NoLoad =>
                   /\ inst'[p].cart_id = cartObj'[p].id
                   /\ \A q \in Procs \ {p} : inst'[q].id # inst'[p].id ]_vars

\* Whether a return location stays on the application's own host and
\* scheme: a path of the application.
OwnHost(url) == url \in {"/", "/tunel/"}

\* C21: take_to_production redirects to the return location the caller
\* supplied when that location is on the application's own host and scheme,
\* and never redirects to a location on another host.
C21_TakeRedirectsToSafeReturnLocation ==
    \A p \in Procs :
        pc[p] = "ttp_done"
        => /\ OwnHost(out[p].location)
           /\ ( req[p].next # "" /\ OwnHost(req[p].next) )
                  => out[p].location = req[p].next

\* C22: whenever take_to_production reports success for a load, the load's
\* stored status is TAKEN_TO_PRODUCTION when the response is produced,
\* whatever weight edit or other take ran in between.
C22_ReportedSuccessMeansTaken ==
    [][ \A p \in Procs :
          ( pc[p] = "mt_return" /\ pc'[p] = "ttp_done"
            /\ out'[p].msg = "success" /\ seen[p].id \in LoadIds )
          => loads[seen[p].id].status = TAKEN_TO_PRODUCTION ]_vars

\* C23: every committed weight edit raises the stored version by exactly 1
\* over the value stored right before the write, and no step ever lowers
\* the stored version of a load.
C23_EditRaisesVersionByOne ==
    [][ /\ \A i \in LoadIds \cap DOMAIN loads' :
              loads'[i].version >= loads[i].version
        /\ \A p \in Procs :
              ( pc[p] = "el_form" /\ pc'[p] = "el_done" )
              => loads'[inst[p].id].version = loads[inst[p].id].version + 1
      ]_vars

\* C24: a weight edit is applied only if the load is unchanged since the
\* editing request read it: an edit whose read predates another committed
\* edit or a committed take leaves the stored total_weight_kg, edited_by
\* and version alone.
C24_StaleEditIsNotApplied ==
    [][ \A p \in Procs :
          ( pc[p] = "el_form" /\ pc'[p] # "el_form"
            /\ inst[p].id \in LoadIds
            /\ loads[inst[p].id].version # inst[p].version )
          => LET old == loads[inst[p].id]
                 new == loads'[inst[p].id]
             IN  /\ new.total_weight_kg = old.total_weight_kg
                 /\ new.edited_by = old.edited_by
                 /\ new.version = old.version ]_vars

\* The weight the claim counts for a load: the snapshot of a taken load,
\* the total weight of any other.
C25_Weight(l) ==
    IF l.status = TAKEN_TO_PRODUCTION THEN l.cart_weight_snapshot[1]
    ELSE l.total_weight_kg

\* The sum over the carts a row lists, from the n-th on, of the weight of
\* the load with the highest id that has the row's kind and code and is on
\* the cart with that number.
RECURSIVE C25_Sum(_, _)
C25_Sum(data, n) ==
    IF n > Len(data.taken_carts_csv) THEN 0
    ELSE LET m == {i \in LoadIds :
                     /\ loads[i].product_kind = data.product_kind
                     /\ << loads[i].product_code >> = _to_int(data.product_code)
                     /\ [id |-> loads[i].cart_id,
                         number |-> data.taken_carts_csv[n]] \in carts}
         IN  ( IF m = {} THEN 0
               ELSE C25_Weight(loads[CHOOSE i \in m : \A j \in m : i >= j]) )
             + C25_Sum(data, n + 1)

\* C25: the sum_taken_kg of a tunnel row is the sum, over the carts the row
\* lists, of the weight of the most recent load of the row's kind and code
\* on that cart (snapshot when taken, total weight otherwise) as the save
\* found the loads; the rows are stored with that sum, and nothing but a
\* save of the tunnel screen changes a stored row, so later edits and
\* takes leave the sum as it is.
C25_SumTakenIsPointInTime ==
    [][ /\ \A p \in Procs :
              ( pc[p] = "idle" /\ pc'[p] = "tn_day" )
              => \A n \in 1..Len(req'[p].rows) :
                    req'[p].rows[n].data.sum_taken_kg
                        = C25_Sum(req'[p].rows[n].data, 1)
        /\ \A p \in Procs :
              ( pc[p] = "tn_commit" /\ pc'[p] = "tn_done" )
              => \A n \in 1..Len(req[p].rows) :
                    \E x \in tunnelRows' \ tunnelRows :
                        /\ x.day = req[p].date
                        /\ x.order_no = n - 1
                        /\ x.data = req[p].rows[n].data
        /\ ( \A p \in Procs : pc[p] # "tn_commit" )
              => tunnelRows' = tunnelRows
        /\ \A x \in tunnelRows, y \in tunnelRows' :
              x.id = y.id => y.data.sum_taken_kg = x.data.sum_taken_kg
      ]_vars

\* A stored row whose sum counted a snapshot and a live weight, after a
\* weight edit that made the sum of the loads differ from the stored one.
C25_Witness ==
    \E x \in tunnelRows :
        /\ x.data.sum_taken_kg > 0
        /\ x.data.sum_taken_kg # C25_Sum(x.data, 1)
        /\ \E i \in LoadIds : loads[i].edited_by # ""

\* The cart has loads, and all of them were taken to production.
OnlyHistory(cart) ==
    /\ \E i \in LoadIds : loads[i].cart_id = cart.id
    /\ \A i \in LoadIds : loads[i].cart_id = cart.id
                          => loads[i].status = TAKEN_TO_PRODUCTION

\* C26: once the active load of a cart is taken the cart is free (is_free,
\* and cart_check says not occupied); a batch row for the cart is then not
\* skipped and creates a new IN_COLD_ROOM load, and the taken load stays
\* stored as it is.
C26_TakenCartIsFreeForNextBatch ==
    [][ \A p \in Procs :
          /\ ( pc[p] = "mt_update" /\ pc'[p] = "mt_return" )
             => \A c \in carts :
                   c.id = loads[inst[p].id].cart_id
                   => /\ is_free(c)'
                      /\ ~ api_cart_check(c.number)'.occupied
                      /\ api_cart_check(c.number)'.exists
                      /\ loads'[inst[p].id].status = TAKEN_TO_PRODUCTION
          /\ ( pc[p] = "nb_check" /\ OnlyHistory(cartObj[p]) )
             => pc'[p] \in {"nb_check", "nb_insert"}
          /\ ( pc[p] = "nb_insert" /\ pc'[p] # "nb_insert"
               /\ OnlyHistory(cartObj[p]) )
             => /\ pc'[p] # "error500"
                /\ DOMAIN loads' = LoadIds \cup {nextLoadId}
                /\ loads'[nextLoadId].status = IN_COLD_ROOM
                /\ loads'[nextLoadId].cart_id = cartObj[p].id
                /\ \A i \in LoadIds : loads'[i] = loads[i] ]_vars

\* A batch has put a new load on a cart whose earlier load was taken.
C26_Witness ==
    \E i, j \in LoadIds :
        /\ i < j
        /\ loads[i].cart_id = loads[j].cart_id
        /\ loads[i].status = TAKEN_TO_PRODUCTION
        /\ loads[j].status = IN_COLD_ROOM
        /\ \E c \in carts : c.id = loads[j].cart_id /\ ~ is_free(c)

\* C27: a load is TAKEN_TO_PRODUCTION exactly when its taken_at is set and
\* exactly when its cart_weight_snapshot is set, so the occupancy test
\* (taken_at is null) selects exactly the loads the uniqueness constraint
\* counts (status IN_COLD_ROOM).
C27_StatusTakenAtSnapshotAgree ==
    /\ \A i \in LoadIds :
          /\ loads[i].status \in {IN_COLD_ROOM, TAKEN_TO_PRODUCTION}
          /\ ( loads[i].status = TAKEN_TO_PRODUCTION )
                 <=> ( loads[i].taken_at # None )
          /\ ( loads[i].status = TAKEN_TO_PRODUCTION )
                 <=> ( loads[i].cart_weight_snapshot # None )
    /\ {i \in LoadIds : _available_q(loads[i])}
           = {i \in LoadIds : loads[i].status = IN_COLD_ROOM}

\* A taken load that a weight edit rewrote after the transition, next to a
\* newer load in the cold room.
C27_Witness ==
    \E i, j \in LoadIds :
        /\ loads[i].status = TAKEN_TO_PRODUCTION
        /\ loads[i].edited_by # ""
        /\ loads[i].edited_at[1] > loads[i].taken_at[1]
        /\ loads[j].status = IN_COLD_ROOM

\* C28: the status of a load only moves from IN_COLD_ROOM to
\* TAKEN_TO_PRODUCTION and never back, and taken_at and
\* cart_weight_snapshot, once set, are never changed by a later take or
\* weight edit, also one whose read predates the transition.
C28_TakenIsFinal ==
    [][ \A i \in LoadIds \cap DOMAIN loads' :
          /\ loads[i].status = TAKEN_TO_PRODUCTION
                => loads'[i].status = TAKEN_TO_PRODUCTION
          /\ loads[i].taken_at # None
                => loads'[i].taken_at = loads[i].taken_at
          /\ loads[i].cart_weight_snapshot # None
                => loads'[i].cart_weight_snapshot = loads[i].cart_weight_snapshot
      ]_vars

\* A weight edit that had read the load in the cold room wrote it after the
\* take (its version, read + 1, is the one the take had stored), and a
\* request is calling mark_taken on the taken load once more.
C28_Witness ==
    \E i \in LoadIds :
        /\ loads[i].status = TAKEN_TO_PRODUCTION
        /\ loads[i].edited_by # ""
        /\ loads[i].edited_at[1] > loads[i].taken_at[1]
        /\ loads[i].version = 1
        /\ loads[i].total_weight_kg # loads[i].cart_weight_snapshot[1]
        /\ \E p \in Procs : inst[p].id = i /\ out[p].calls = 2

\* C29: on the plan screen, for every kind, the missing figure of the last
\* day of the horizon equals the to-make figure of that kind, and the
\* missing figures never decrease from one day to the next.
C29_LastMissingIsToMake ==
    \A p \in Procs :
        pc[p] = "pg_done" =>
           LET ctx == out[p]
               last == Len(ctx.rows)
           IN  \A k \in KINDS :
                  /\ ctx.rows[last].missing_kg[k] = ctx.to_make[k]
                  /\ \A n \in 1..(last - 1) :
                        ctx.rows[n].missing_kg[k] <= ctx.rows[n + 1].missing_kg[k]

\* A plan of several days shown with one kind whose shortage grows to its
\* to-make figure and another kind whose stock covers all of its demand.
C29_Witness ==
    \E p \in Procs, k, c \in KINDS :
        /\ pc[p] = "pg_done"
        /\ Len(out[p].rows) >= 2
        /\ out[p].rows[1].missing_kg[k] < out[p].rows[2].missing_kg[k]
        /\ out[p].to_make[k] > 0
        /\ out[p].sum_kind[c] > 0
        /\ out[p].available[c] > out[p].sum_kind[c]
        /\ out[p].to_make[c] = 0

\* C30: delete_cart is all-or-nothing: whenever it ends, also next to a
\* batch that creates a load on the same cart, it has not deleted the
\* cart's earlier loads and left the cart in place.
C30_DeleteCartIsAllOrNothing ==
    [][ \A p \in Procs :
          ( pc[p] = "dc_cart" /\ pc'[p] # "dc_cart" /\ out[p].deleted > 0 )
          => ~ \E c \in carts' : c.id = cartObj[p].id ]_vars
====
